---- MODULE Spec2Model ----
(***************************************************************************)
(* RecipeDatabase (src/recipeorganizer.py): the SQLite data-access layer   *)
(* of the recipe organizer, as a state machine over the tables it owns.    *)
(*                                                                         *)
(* The store is the view of the one connection the process holds. The      *)
(* connection never issues PRAGMA foreign_keys, so SQLite's default        *)
(* applies: the FOREIGN KEY clauses of the schema are parsed and not       *)
(* enforced (no ON DELETE CASCADE, no SET NULL). The id columns are        *)
(* INTEGER PRIMARY KEY without AUTOINCREMENT: a new row gets the largest   *)
(* id in the table plus one. A statement that violates a constraint        *)
(* raises and changes nothing itself, the statements executed before it    *)
(* in the same call stay in the connection's open transaction (no call     *)
(* rolls back) and are visible to every later call.                        *)
(***************************************************************************)
EXTENDS Integers, Sequences, FiniteSets, TLC

VARIABLES db, now, calls

vars == <<db, now, calls>>

(***************************************************************************)
(* Bounds of the model.                                                    *)
(***************************************************************************)
MaxCalls == 3
MaxRecipes == 2
MaxLists == 2
MaxItems == 3
MaxClock == 1

(***************************************************************************)
(* Python dicts are functions whose DOMAIN is the set of keys present.     *)
(***************************************************************************)
Get(d, k, default) == IF k \in DOMAIN d THEN d[k] ELSE default

Has(d, k) == k \in DOMAIN d

EmptyDict == [k \in {} |-> 0]

Merge(d1, d2) == [k \in DOMAIN d1 \cup DOMAIN d2 |-> IF k \in DOMAIN d2 THEN d2[k] ELSE d1[k]]

SetMax(S) == CHOOSE x \in S : \A y \in S : y <= x

\* INTEGER PRIMARY KEY without AUTOINCREMENT: largest rowid in use plus one.
NextId(table) == IF DOMAIN table = {} THEN 1 ELSE SetMax(DOMAIN table) + 1

Range(s) == {s[i] : i \in DOMAIN s}

(***************************************************************************)
(* Schema seed rows.                                                       *)
(***************************************************************************)
default_categories ==
  <<"Breakfast", "Lunch", "Dinner", "Dessert", "Appetizer", "Snack", "Soup",
    "Salad", "Main Course", "Side Dish", "Beverage", "Baked Goods">>

default_tags ==
  <<"Vegetarian", "Vegan", "Gluten-Free", "Dairy-Free", "Nut-Free", "Low-Carb",
    "High-Protein", "Quick", "Easy", "Budget-Friendly", "One-Pot", "Kid-Friendly">>

\* Mutant: a plain INSERT into a table whose name column is not UNIQUE.
RECURSIVE InsertNames(_, _)
InsertNames(table, names) ==
  IF names = <<>> THEN table
  ELSE InsertNames([i \in DOMAIN table \cup {NextId(table)} |->
                      IF i \in DOMAIN table THEN table[i] ELSE Head(names)],
                   Tail(names))

\* INSERT OR IGNORE INTO <labels> (name): skipped when the name exists.
RECURSIVE InsertOrIgnoreNames(_, _)
InsertOrIgnoreNames(table, names) ==
  IF names = <<>> THEN table
  ELSE LET n == Head(names)
           t == IF \E i \in DOMAIN table : table[i] = n
                THEN table
                ELSE [i \in DOMAIN table \cup {NextId(table)} |->
                        IF i \in DOMAIN table THEN table[i] ELSE n]
       IN InsertOrIgnoreNames(t, Tail(names))

EmptyTable == [i \in {} |-> 0]

\* CREATE TABLE IF NOT EXISTS on a database file that does not exist yet.
EmptyStore ==
  [recipes |-> EmptyTable,
   categories |-> EmptyTable,
   recipe_categories |-> {},
   tags |-> EmptyTable,
   recipe_tags |-> {},
   ingredients |-> EmptyTable,
   recipe_ingredients |-> {},
   shopping_lists |-> EmptyTable,
   shopping_list_items |-> EmptyTable]

\* _create_tables: every CREATE is conditional, the seeds are INSERT OR IGNORE.
create_tables(d) ==
  [d EXCEPT !.categories = InsertOrIgnoreNames(@, default_categories),
            !.tags = InsertOrIgnoreNames(@, default_tags)]

(***************************************************************************)
(* get-or-create of a label (category or tag) by exact name.               *)
(***************************************************************************)
LabelId(table, name) == CHOOSE i \in DOMAIN table : table[i] = name

\* Mutant: the INSERT without the SELECT that looks the name up.
GetOrCreateLabel_insert(table, name) ==
  [table |-> [i \in DOMAIN table \cup {NextId(table)} |->
                IF i \in DOMAIN table THEN table[i] ELSE name],
   id |-> NextId(table)]

GetOrCreateLabel(table, name) ==
  IF \E i \in DOMAIN table : table[i] = name
  THEN [table |-> table, id |-> LabelId(table, name)]
  ELSE [table |-> [i \in DOMAIN table \cup {NextId(table)} |->
                     IF i \in DOMAIN table THEN table[i] ELSE name],
        id |-> NextId(table)]

\* for category_name in ...: get or create, INSERT OR IGNORE INTO recipe_categories
RECURSIVE LinkCategories(_, _, _)
LinkCategories(d, recipe_id, names) ==
  IF names = <<>> THEN d
  ELSE LET goc == GetOrCreateLabel(d.categories, Head(names))
           d1 == [d EXCEPT !.categories = goc.table,
                           !.recipe_categories = @ \cup {<<recipe_id, goc.id>>}]
       IN LinkCategories(d1, recipe_id, Tail(names))

\* for tag_name in ...: get or create, INSERT OR IGNORE INTO recipe_tags
RECURSIVE LinkTags(_, _, _)
LinkTags(d, recipe_id, names) ==
  IF names = <<>> THEN d
  ELSE LET goc == GetOrCreateLabel(d.tags, Head(names))
           d1 == [d EXCEPT !.tags = goc.table,
                           !.recipe_tags = @ \cup {<<recipe_id, goc.id>>}]
       IN LinkTags(d1, recipe_id, Tail(names))

(***************************************************************************)
(* get-or-create of an ingredient by name, then a plain INSERT of the      *)
(* link: a second link for the same (recipe_id, ingredient_id) violates    *)
(* the primary key and raises sqlite3.IntegrityError.                      *)
(***************************************************************************)
IngredientId(table, name) == CHOOSE i \in DOMAIN table : table[i].name = name

\* Mutant: an ingredient that exists takes the category and unit supplied.
GetOrCreateIngredient_upsert(table, ingredient) ==
  LET ing_name == ingredient.name
      row == [name |-> ing_name,
              category |-> Get(ingredient, "category", ""),
              unit |-> Get(ingredient, "unit", "")]
  IN IF \E i \in DOMAIN table : table[i].name = ing_name
     THEN [table |-> [table EXCEPT ![IngredientId(table, ing_name)] = row],
           id |-> IngredientId(table, ing_name)]
     ELSE [table |-> [i \in DOMAIN table \cup {NextId(table)} |->
                        IF i \in DOMAIN table THEN table[i] ELSE row],
           id |-> NextId(table)]

GetOrCreateIngredient(table, ingredient) ==
  LET ing_name == ingredient.name
  IN IF \E i \in DOMAIN table : table[i].name = ing_name
     THEN [table |-> table, id |-> IngredientId(table, ing_name)]
     ELSE [table |-> [i \in DOMAIN table \cup {NextId(table)} |->
                        IF i \in DOMAIN table THEN table[i]
                        ELSE [name |-> ing_name,
                              category |-> Get(ingredient, "category", ""),
                              unit |-> Get(ingredient, "unit", "")]],
           id |-> NextId(table)]

LinkRow(recipe_id, ingredient_id, ingredient) ==
  [recipe_id |-> recipe_id,
   ingredient_id |-> ingredient_id,
   quantity |-> Get(ingredient, "quantity", 0),
   unit |-> Get(ingredient, "unit", ""),
   notes |-> Get(ingredient, "notes", "")]

LinkExists(d, recipe_id, ingredient_id) ==
  \E l \in d.recipe_ingredients :
     l.recipe_id = recipe_id /\ l.ingredient_id = ingredient_id

\* for ingredient in ...: the loop stops at the first statement that raises.
RECURSIVE LinkIngredients(_, _, _)
LinkIngredients(d, recipe_id, ingredients) ==
  IF ingredients = <<>> THEN [db |-> d, raised |-> FALSE]
  ELSE LET goc == GetOrCreateIngredient(d.ingredients, Head(ingredients))
           d1 == [d EXCEPT !.ingredients = goc.table]
       IN IF LinkExists(d1, recipe_id, goc.id)
          THEN [db |-> d1, raised |-> TRUE]
          ELSE LinkIngredients(
                 [d1 EXCEPT !.recipe_ingredients =
                               @ \cup {LinkRow(recipe_id, goc.id, Head(ingredients))}],
                 recipe_id, Tail(ingredients))

(***************************************************************************)
(* Recipe CRUD.                                                            *)
(***************************************************************************)
Truthy01(data) == IF Get(data, "favorite", FALSE) THEN 1 ELSE 0

ScalarRow(data) ==
  [name |-> data.name,
   description |-> Get(data, "description", ""),
   instructions |-> Get(data, "instructions", ""),
   prep_time |-> Get(data, "prep_time", 0),
   cook_time |-> Get(data, "cook_time", 0),
   servings |-> Get(data, "servings", 1),
   difficulty |-> Get(data, "difficulty", "Medium"),
   source |-> Get(data, "source", ""),
   notes |-> Get(data, "notes", ""),
   favorite |-> Truthy01(data)]

\* date_added TIMESTAMP DEFAULT CURRENT_TIMESTAMP
InsertRecipeRow(d, data, t) ==
  [d EXCEPT !.recipes =
     [i \in DOMAIN d.recipes \cup {NextId(d.recipes)} |->
        IF i \in DOMAIN d.recipes THEN d.recipes[i]
        ELSE Merge(ScalarRow(data), [date_added |-> t])]]

AddCategories(d, recipe_id, data) ==
  IF Has(data, "categories") /\ data.categories # <<>>
  THEN LinkCategories(d, recipe_id, data.categories)
  ELSE d

AddTags(d, recipe_id, data) ==
  IF Has(data, "tags") /\ data.tags # <<>>
  THEN LinkTags(d, recipe_id, data.tags)
  ELSE d

AddIngredients(d, recipe_id, data) ==
  IF Has(data, "ingredients") /\ data.ingredients # <<>>
  THEN LinkIngredients(d, recipe_id, data.ingredients)
  ELSE [db |-> d, raised |-> FALSE]

\* add_recipe(recipe_data): [db, raised, ret]; ret is the new id (0 when raised).
\* name TEXT NOT NULL: a dict without 'name' binds NULL and the INSERT raises.
add_recipe(d, data, t) ==
  IF ~Has(data, "name")
  THEN [db |-> d, raised |-> TRUE, ret |-> 0]
  ELSE LET recipe_id == NextId(d.recipes)
           d1 == InsertRecipeRow(d, data, t)
           d2 == AddCategories(d1, recipe_id, data)
           d3 == AddTags(d2, recipe_id, data)
           r == AddIngredients(d3, recipe_id, data)
       IN [db |-> r.db, raised |-> r.raised,
           ret |-> IF r.raised THEN 0 ELSE recipe_id]

RecipeIngredients(d, recipe_id) ==
  {[id |-> l.ingredient_id,
    name |-> d.ingredients[l.ingredient_id].name,
    quantity |-> l.quantity,
    unit |-> l.unit,
    notes |-> l.notes,
    category |-> d.ingredients[l.ingredient_id].category] :
     l \in {x \in d.recipe_ingredients :
              x.recipe_id = recipe_id /\ x.ingredient_id \in DOMAIN d.ingredients}}

RecipeCategories(d, recipe_id) ==
  {d.categories[l[2]] :
     l \in {x \in d.recipe_categories : x[1] = recipe_id /\ x[2] \in DOMAIN d.categories}}

RecipeTags(d, recipe_id) ==
  {d.tags[l[2]] :
     l \in {x \in d.recipe_tags : x[1] = recipe_id /\ x[2] \in DOMAIN d.tags}}

\* get_recipe(recipe_id): found = FALSE stands for None. The three SELECTs have
\* no ORDER BY: the associations are returned as sets.
get_recipe(d, recipe_id) ==
  IF recipe_id \notin DOMAIN d.recipes
  THEN [found |-> FALSE]
  ELSE LET row == d.recipes[recipe_id]
       IN [found |-> TRUE,
           id |-> recipe_id,
           name |-> row.name,
           description |-> row.description,
           instructions |-> row.instructions,
           prep_time |-> row.prep_time,
           cook_time |-> row.cook_time,
           servings |-> row.servings,
           difficulty |-> row.difficulty,
           source |-> row.source,
           notes |-> row.notes,
           favorite |-> (row.favorite # 0),
           date_added |-> row.date_added,
           ingredients |-> RecipeIngredients(d, recipe_id),
           categories |-> RecipeCategories(d, recipe_id),
           tags |-> RecipeTags(d, recipe_id)]

\* DELETE FROM recipes WHERE id = ?: the row alone (foreign keys are not enforced).
DeleteRecipeRow(d, recipe_id) ==
  [d EXCEPT !.recipes = [i \in DOMAIN d.recipes \ {recipe_id} |-> d.recipes[i]]]

\* Mutant: without the SELECT that checks the recipe exists.
delete_recipe_unchecked(d, recipe_id) ==
  [db |-> DeleteRecipeRow(d, recipe_id), ret |-> TRUE]

delete_recipe(d, recipe_id) ==
  IF recipe_id \notin DOMAIN d.recipes
  THEN [db |-> d, ret |-> FALSE]
  ELSE [db |-> DeleteRecipeRow(d, recipe_id), ret |-> TRUE]

\* Mutant: INSERT OR REPLACE of a row without date_added, which takes the
\* column's default anew (the earliest time of the model).
UpdateRecipeRow_replace(d, recipe_id, data) ==
  [d EXCEPT !.recipes[recipe_id] = Merge(ScalarRow(data), [date_added |-> 0])]

\* Mutant: the SET list holds the columns whose keys recipe_data has.
UpdateRecipeRow_partial(d, recipe_id, data) ==
  [d EXCEPT !.recipes[recipe_id] =
     [k \in DOMAIN @ |->
        IF k # "date_added" /\ Has(data, k) THEN ScalarRow(data)[k] ELSE @[k]]]

\* UPDATE recipes SET name = ?, ... WHERE id = ?: date_added is not in the SET list.
UpdateRecipeRow(d, recipe_id, data) ==
  [d EXCEPT !.recipes[recipe_id] =
     Merge(ScalarRow(data), [date_added |-> d.recipes[recipe_id].date_added])]

\* Mutant: the condition of add_recipe ('categories' in recipe_data and
\* recipe_data['categories']) copied into update_recipe.
UpdateCategories_truthy(d, recipe_id, data) ==
  IF Has(data, "categories") /\ data.categories # <<>>
  THEN LinkCategories(
         [d EXCEPT !.recipe_categories = {l \in @ : l[1] # recipe_id}],
         recipe_id, data.categories)
  ELSE d

\* if 'categories' in recipe_data: DELETE the recipe's links, then reinsert.
UpdateCategories(d, recipe_id, data) ==
  IF Has(data, "categories")
  THEN LinkCategories(
         [d EXCEPT !.recipe_categories = {l \in @ : l[1] # recipe_id}],
         recipe_id, data.categories)
  ELSE d

\* Mutant: DELETE FROM recipe_tags without the WHERE recipe_id = ?.
UpdateTags_all(d, recipe_id, data) ==
  IF Has(data, "tags")
  THEN LinkTags([d EXCEPT !.recipe_tags = {}], recipe_id, data.tags)
  ELSE d

UpdateTags(d, recipe_id, data) ==
  IF Has(data, "tags")
  THEN LinkTags(
         [d EXCEPT !.recipe_tags = {l \in @ : l[1] # recipe_id}],
         recipe_id, data.tags)
  ELSE d

UpdateIngredients(d, recipe_id, data) ==
  IF Has(data, "ingredients")
  THEN LinkIngredients(
         [d EXCEPT !.recipe_ingredients = {l \in @ : l.recipe_id # recipe_id}],
         recipe_id, data.ingredients)
  ELSE [db |-> d, raised |-> FALSE]

\* Mutant: without the SELECT that checks the recipe exists; the UPDATE matches no
\* row and the links are written for the id given.
update_recipe_unchecked(d, recipe_id, data) ==
  IF ~Has(data, "name")
  THEN [db |-> d, raised |-> TRUE, ret |-> FALSE]
  ELSE LET d1 == IF recipe_id \in DOMAIN d.recipes
                 THEN UpdateRecipeRow(d, recipe_id, data)
                 ELSE d
           d2 == UpdateCategories(d1, recipe_id, data)
           d3 == UpdateTags(d2, recipe_id, data)
           r == UpdateIngredients(d3, recipe_id, data)
       IN [db |-> r.db, raised |-> r.raised, ret |-> ~r.raised]

\* update_recipe(recipe_id, recipe_data): [db, raised, ret]; ret is the bool returned.
update_recipe(d, recipe_id, data) ==
  IF recipe_id \notin DOMAIN d.recipes
  THEN [db |-> d, raised |-> FALSE, ret |-> FALSE]
  ELSE IF ~Has(data, "name")
  THEN [db |-> d, raised |-> TRUE, ret |-> FALSE]
  ELSE LET d1 == UpdateRecipeRow(d, recipe_id, data)
           d2 == UpdateCategories(d1, recipe_id, data)
           d3 == UpdateTags(d2, recipe_id, data)
           r == UpdateIngredients(d3, recipe_id, data)
       IN [db |-> r.db, raised |-> r.raised, ret |-> ~r.raised]

(***************************************************************************)
(* Text. TLA+ strings are atoms, so the characters of every string the     *)
(* model stores or searches for are tabulated here.                        *)
(***************************************************************************)
Chars(s) ==
  CASE s = "" -> <<>>
    [] s = " " -> <<" ">>
    [] s = "Pie" -> <<"P", "i", "e">>
    [] s = "Tart" -> <<"T", "a", "r", "t">>
    [] s = "Apple" -> <<"A", "p", "p", "l", "e">>
    [] s = "Bake" -> <<"B", "a", "k", "e">>
    [] s = "PI" -> <<"P", "I">>
    [] s = "ak" -> <<"a", "k">>
    [] s = "flour" -> <<"f", "l", "o", "u", "r">>
    [] s = "sugar" -> <<"s", "u", "g", "a", "r">>
    [] s = "baking" -> <<"b", "a", "k", "i", "n", "g">>

Upper == <<"A", "B", "I", "P", "T">>

Lower == <<"a", "b", "i", "p", "t">>

\* LIKE folds the case of ASCII letters.
FoldCase(c) ==
  IF \E i \in DOMAIN Upper : Upper[i] = c
  THEN Lower[CHOOSE i \in DOMAIN Upper : Upper[i] = c]
  ELSE c

Fold(cs) == [i \in DOMAIN cs |-> FoldCase(cs[i])]

\* text LIKE '%query%'
Like(text, query) ==
  LET t == Fold(Chars(text))
      q == Fold(Chars(query))
  IN \E i \in 0..(Len(t) - Len(q)) : SubSeq(t, i + 1, i + Len(q)) = q

(***************************************************************************)
(* search_recipes(query, categories, tags, favorite). The arguments are a  *)
(* dict, an absent key is an argument left at None. A filter list joins    *)
(* the link table and the label table; SELECT DISTINCT keeps one copy of   *)
(* each summary row.                                                       *)
(***************************************************************************)
CategoryJoin(d, f, recipe_id) ==
  IF Has(f, "categories") /\ f.categories # <<>>
  THEN {l \in d.recipe_categories :
          /\ l[1] = recipe_id
          /\ l[2] \in DOMAIN d.categories
          /\ d.categories[l[2]] \in Range(f.categories)}
  ELSE {<<recipe_id, 0>>}

\* Mutant: 'elif tags:' in place of 'if tags:'.
TagJoin_elif(d, f, recipe_id) ==
  IF Has(f, "categories") /\ f.categories # <<>>
  THEN {<<recipe_id, 0>>}
  ELSE IF Has(f, "tags") /\ f.tags # <<>>
  THEN {l \in d.recipe_tags :
          /\ l[1] = recipe_id
          /\ l[2] \in DOMAIN d.tags
          /\ d.tags[l[2]] \in Range(f.tags)}
  ELSE {<<recipe_id, 0>>}

TagJoin(d, f, recipe_id) ==
  IF Has(f, "tags") /\ f.tags # <<>>
  THEN {l \in d.recipe_tags :
          /\ l[1] = recipe_id
          /\ l[2] \in DOMAIN d.tags
          /\ d.tags[l[2]] \in Range(f.tags)}
  ELSE {<<recipe_id, 0>>}

QueryCondition(d, f, recipe_id) ==
  IF Has(f, "query") /\ f.query # ""
  THEN \/ Like(d.recipes[recipe_id].name, f.query)
       \/ Like(d.recipes[recipe_id].description, f.query)
       \/ Like(d.recipes[recipe_id].instructions, f.query)
  ELSE TRUE

\* Mutant: 'if favorite:' in place of 'if favorite is not None:'.
FavoriteCondition_truthy(d, f, recipe_id) ==
  IF Has(f, "favorite") /\ f.favorite
  THEN d.recipes[recipe_id].favorite = 1
  ELSE TRUE

FavoriteCondition(d, f, recipe_id) ==
  IF Has(f, "favorite")
  THEN d.recipes[recipe_id].favorite = (IF f.favorite THEN 1 ELSE 0)
  ELSE TRUE

\* The rows of the FROM ... JOIN ... WHERE, before DISTINCT.
JoinRows(d, f) ==
  UNION {{<<r, c, t>> : c \in CategoryJoin(d, f, r), t \in TagJoin(d, f, r)} :
           r \in {x \in DOMAIN d.recipes :
                    QueryCondition(d, f, x) /\ FavoriteCondition(d, f, x)}}

Summary(d, recipe_id) ==
  [id |-> recipe_id,
   name |-> d.recipes[recipe_id].name,
   description |-> d.recipes[recipe_id].description,
   prep_time |-> d.recipes[recipe_id].prep_time,
   cook_time |-> d.recipes[recipe_id].cook_time,
   difficulty |-> d.recipes[recipe_id].difficulty,
   favorite |-> (d.recipes[recipe_id].favorite # 0)]

\* Mutant: the SELECT list also names a column of the joined categories row, so
\* DISTINCT keeps one row per matching category.
search_recipes_joined(d, f) ==
  {Merge(Summary(d, j[1]), [category |-> j[2]]) : j \in JoinRows(d, f)}

\* SELECT DISTINCT r.id, r.name, ...: one copy of each row of the join's SELECT list.
search_recipes(d, f) == {Summary(d, j[1]) : j \in JoinRows(d, f)}

(***************************************************************************)
(* Shopping lists.                                                         *)
(***************************************************************************)
\* SQL NULL in an integer column (ids start at 1).
NULL == 0

\* create_shopping_list(name, notes): [db, ret]; ret is the new id.
create_shopping_list(d, name, notes, t) ==
  [db |-> [d EXCEPT !.shopping_lists =
             [i \in DOMAIN @ \cup {NextId(@)} |->
                IF i \in DOMAIN @ THEN @[i]
                ELSE [name |-> name, date_created |-> t, notes |-> notes]]],
   ret |-> NextId(d.shopping_lists)]

\* add_shopping_list_item(...): [db, ret]; checked BOOLEAN DEFAULT 0.
add_shopping_list_item(d, shopping_list_id, ingredient_id, quantity, unit, notes) ==
  [db |-> [d EXCEPT !.shopping_list_items =
             [i \in DOMAIN @ \cup {NextId(@)} |->
                IF i \in DOMAIN @ THEN @[i]
                ELSE [shopping_list_id |-> shopping_list_id,
                      ingredient_id |-> ingredient_id,
                      quantity |-> quantity,
                      unit |-> unit,
                      checked |-> 0,
                      notes |-> notes]]],
   ret |-> NextId(d.shopping_list_items)]

\* get_shopping_lists(): the rows of shopping_lists (ORDER BY date_created DESC
\* leaves the order of lists created at the same time open: a set).
get_shopping_lists(d) ==
  {[id |-> i,
    name |-> d.shopping_lists[i].name,
    date_created |-> d.shopping_lists[i].date_created,
    notes |-> d.shopping_lists[i].notes] : i \in DOMAIN d.shopping_lists}

\* The items SELECT of get_shopping_list: an inner JOIN with ingredients.
ShoppingListItems(d, shopping_list_id) ==
  {[id |-> i,
    ingredient_id |-> d.shopping_list_items[i].ingredient_id,
    name |-> d.ingredients[d.shopping_list_items[i].ingredient_id].name,
    quantity |-> d.shopping_list_items[i].quantity,
    unit |-> d.shopping_list_items[i].unit,
    checked |-> (d.shopping_list_items[i].checked # 0),
    notes |-> d.shopping_list_items[i].notes,
    category |-> d.ingredients[d.shopping_list_items[i].ingredient_id].category] :
     i \in {x \in DOMAIN d.shopping_list_items :
              /\ d.shopping_list_items[x].shopping_list_id = shopping_list_id
              /\ d.shopping_list_items[x].ingredient_id \in DOMAIN d.ingredients}}

\* get_shopping_list(shopping_list_id): found = FALSE stands for None.
get_shopping_list(d, shopping_list_id) ==
  IF shopping_list_id \notin DOMAIN d.shopping_lists
  THEN [found |-> FALSE]
  ELSE [found |-> TRUE,
        id |-> shopping_list_id,
        name |-> d.shopping_lists[shopping_list_id].name,
        date_created |-> d.shopping_lists[shopping_list_id].date_created,
        notes |-> d.shopping_lists[shopping_list_id].notes,
        items |-> ShoppingListItems(d, shopping_list_id)]

\* Mutant: without the early 'return False' when no field was supplied.
update_shopping_list_item_always(d, item_id, f) ==
  [db |-> IF item_id \in DOMAIN d.shopping_list_items
          THEN [d EXCEPT !.shopping_list_items[item_id] =
                  Merge(@, IF Has(f, "checked")
                           THEN Merge(f, [checked |-> IF f.checked THEN 1 ELSE 0])
                           ELSE f)]
          ELSE d,
   ret |-> TRUE]

\* Mutant: 'if checked:' and 'if quantity:' in place of the 'is not None' tests.
update_shopping_list_item_truthy(d, item_id, f) ==
  LET g == [k \in {x \in DOMAIN f : \/ x = "notes"
                                    \/ x = "checked" /\ f[x]
                                    \/ x = "quantity" /\ f[x] # 0} |->
              IF k = "checked" THEN 1 ELSE f[k]]
  IN IF DOMAIN g = {}
     THEN [db |-> d, ret |-> FALSE]
     ELSE [db |-> IF item_id \in DOMAIN d.shopping_list_items
                  THEN [d EXCEPT !.shopping_list_items[item_id] = Merge(@, g)]
                  ELSE d,
           ret |-> TRUE]

\* update_shopping_list_item(item_id, checked, quantity, notes): an absent key is
\* an argument left at None. UPDATE ... WHERE id = ? matches zero rows or one.
update_shopping_list_item(d, item_id, f) ==
  IF DOMAIN f \cap {"checked", "quantity", "notes"} = {}
  THEN [db |-> d, ret |-> FALSE]
  ELSE [db |-> IF item_id \in DOMAIN d.shopping_list_items
               THEN [d EXCEPT !.shopping_list_items[item_id] =
                       Merge(@, IF Has(f, "checked")
                                THEN Merge(f, [checked |-> IF f.checked THEN 1 ELSE 0])
                                ELSE f)]
               ELSE d,
        ret |-> TRUE]

\* Mutant: 'return True' in place of 'return self.cursor.rowcount > 0'.
delete_shopping_list_true(d, shopping_list_id) ==
  [db |-> [d EXCEPT !.shopping_lists =
             [i \in DOMAIN @ \ {shopping_list_id} |-> @[i]]],
   ret |-> TRUE]

\* delete_shopping_list: DELETE FROM shopping_lists, rowcount > 0. The items of
\* the list are not touched (foreign keys are not enforced).
delete_shopping_list(d, shopping_list_id) ==
  [db |-> [d EXCEPT !.shopping_lists =
             [i \in DOMAIN @ \ {shopping_list_id} |-> @[i]]],
   ret |-> shopping_list_id \in DOMAIN d.shopping_lists]

(***************************************************************************)
(* generate_shopping_list_from_recipes.                                    *)
(***************************************************************************)
\* Characters in ascending order of their code (the BINARY collation).
Alphabet ==
  <<" ", "A", "B", "I", "P", "T", "a", "b", "e", "f", "g", "i", "k", "l", "n", "o",
    "p", "r", "s", "t", "u">>

Code(c) == CHOOSE i \in DOMAIN Alphabet : Alphabet[i] = c

RECURSIVE SeqLeq(_, _)
SeqLeq(a, b) ==
  IF a = <<>> THEN TRUE
  ELSE IF b = <<>> THEN FALSE
  ELSE IF Code(Head(a)) # Code(Head(b)) THEN Code(Head(a)) < Code(Head(b))
  ELSE SeqLeq(Tail(a), Tail(b))

TextLeq(a, b) == SeqLeq(Chars(a), Chars(b))

\* FROM recipe_ingredients ri JOIN ingredients i WHERE ri.recipe_id IN (...)
SelectedLinks(d, recipe_ids) ==
  {l \in d.recipe_ingredients :
     l.recipe_id \in Range(recipe_ids) /\ l.ingredient_id \in DOMAIN d.ingredients}

RECURSIVE SumQuantity(_)
SumQuantity(links) ==
  IF links = {} THEN 0
  ELSE LET l == CHOOSE x \in links : TRUE
       IN l.quantity + SumQuantity(links \ {l})

\* GROUP BY ri.ingredient_id, ri.unit with SUM(ri.quantity)
GroupedRows(d, recipe_ids) ==
  {[ingredient_id |-> g[1],
    quantity |-> SumQuantity({l \in SelectedLinks(d, recipe_ids) :
                                l.ingredient_id = g[1] /\ l.unit = g[2]}),
    unit |-> g[2]] :
     g \in {<<l.ingredient_id, l.unit>> : l \in SelectedLinks(d, recipe_ids)}}

\* ORDER BY i.category, i.name
RowLeq(d, a, b) ==
  LET ia == d.ingredients[a.ingredient_id]
      ib == d.ingredients[b.ingredient_id]
  IN IF ia.category # ib.category THEN TextLeq(ia.category, ib.category)
     ELSE TextLeq(ia.name, ib.name)

\* The orders in which fetchall() can return the grouped rows: rows with equal
\* sort keys come in an order SQL leaves open.
ResultOrders(d, recipe_ids) ==
  LET rows == GroupedRows(d, recipe_ids)
      n == Cardinality(rows)
  IN {s \in [1..n -> rows] :
        /\ \A i, j \in 1..n : i # j => s[i] # s[j]
        /\ \A i, j \in 1..n : i < j => RowLeq(d, s[i], s[j])}

RECURSIVE AddRows(_, _, _)
AddRows(d, shopping_list_id, rows) ==
  IF rows = <<>> THEN d
  ELSE AddRows(add_shopping_list_item(d, shopping_list_id, Head(rows).ingredient_id,
                                      Head(rows).quantity, Head(rows).unit, "").db,
               shopping_list_id, Tail(rows))

\* strftime('%Y-%m-%d') of the day of the call: one day in the model.
DefaultListName == "Shopping list (today)"

\* generate_shopping_list_from_recipes(recipe_ids, name): [db, ret]; rows is the
\* result of the grouped SELECT in the order it was fetched.
generate_shopping_list_from_recipes(d, recipe_ids, name, t, rows) ==
  LET c == create_shopping_list(d, IF name = "" THEN DefaultListName ELSE name,
                                "Generated from selected recipes", t)
  IN IF recipe_ids = <<>>
     THEN c
     ELSE [db |-> AddRows(c.db, c.ret, rows), ret |-> c.ret]

(***************************************************************************)
(* JSON import and export. A JSON text is [kind, value]: kind "invalid" is *)
(* text json.loads rejects, otherwise value is the Python value it         *)
(* decodes to.                                                             *)
(***************************************************************************)
\* Mutant: the export writes the scalar fields and drops the association lists.
json_dumps_summary(recipe, ingredients, categories, tags) ==
  [kind |-> "object",
   value |-> [k \in DOMAIN recipe \ {"found", "ingredients", "categories", "tags"} |->
                recipe[k]]]

\* json.dumps of the dict get_recipe returns: the association lists are written
\* in the order the SELECTs returned them (ingredients, categories, tags).
json_dumps(recipe, ingredients, categories, tags) ==
  [kind |-> "object",
   value |-> [k \in DOMAIN recipe \ {"found"} |->
                IF k = "ingredients" THEN ingredients
                ELSE IF k = "categories" THEN categories
                ELSE IF k = "tags" THEN tags
                ELSE recipe[k]]]

Orders(S) ==
  {s \in [1..Cardinality(S) -> S] : \A i, j \in DOMAIN s : i # j => s[i] # s[j]}

\* export_recipe_to_json(recipe_id): the texts it can return ({} stands for None).
export_recipe_to_json(d, recipe_id) ==
  LET recipe == get_recipe(d, recipe_id)
  IN IF ~recipe.found THEN {}
     ELSE {json_dumps(recipe, i, c, t) :
             i \in Orders(recipe.ingredients),
             c \in Orders(recipe.categories),
             t \in Orders(recipe.tags)}

\* import_recipe_from_json(json_data): [db, raised, ret]; ret = 0 stands for None.
\* Only json.JSONDecodeError is caught: recipe_data.get on a value that is no
\* dict raises AttributeError, and add_recipe's errors propagate.
import_recipe_from_json(d, json_data, t) ==
  IF json_data.kind = "invalid"
  THEN [db |-> d, raised |-> FALSE, ret |-> 0]
  ELSE IF json_data.kind # "object"
  THEN [db |-> d, raised |-> TRUE, ret |-> 0]
  ELSE add_recipe(d, json_data.value, t)

(***************************************************************************)
(* The calls the model makes: the arguments are drawn from these sets.     *)
(***************************************************************************)
Full ==
  [name |-> "Pie", description |-> "Apple", instructions |-> "Bake",
   prep_time |-> 10, cook_time |-> 45, servings |-> 8, difficulty |-> "Easy",
   source |-> "Mom", notes |-> "Yum", favorite |-> TRUE]

Minimal == [name |-> "Tart"]

NoName == [instructions |-> "Bake"]

\* A name of whitespace alone.
Blank == [name |-> " ", instructions |-> "Bake"]

Flour200g == [name |-> "flour", quantity |-> 200, unit |-> "g", notes |-> "sifted",
              category |-> "baking"]

Flour300g == [name |-> "flour", quantity |-> 300, unit |-> "g"]

Flour1cup == [name |-> "flour", quantity |-> 1, unit |-> "cup"]

Sugar50g == [name |-> "sugar", quantity |-> 50, unit |-> "g"]

\* The categories, tags and ingredients keys of recipe_data.
AssociationInputs ==
  {EmptyDict,
   [categories |-> <<>>],
   [tags |-> <<>>],
   [ingredients |-> <<>>],
   [categories |-> <<>>, tags |-> <<>>, ingredients |-> <<>>],
   [categories |-> <<"Dinner">>],
   [tags |-> <<"Quick">>],
   [ingredients |-> <<Flour300g>>],
   [ingredients |-> <<Flour1cup>>],
   [categories |-> <<"Dinner", "dinner">>, tags |-> <<"Quick", "Easy">>,
    ingredients |-> <<Flour200g, Sugar50g>>],
   [categories |-> <<"dinner", "Dinner">>, tags |-> <<"Easy", "Quick">>,
    ingredients |-> <<Sugar50g, Flour200g>>],
   [categories |-> <<"Dinner", "Dinner">>, tags |-> <<>>,
    ingredients |-> <<Flour200g, Flour300g>>]}

RecipeInputs ==
  {Merge(s, a) : s \in {Full, Minimal}, a \in AssociationInputs}
  \cup {NoName, Merge(NoName, [categories |-> <<>>, tags |-> <<>>, ingredients |-> <<>>])}

RecipeIds == 1..(MaxRecipes + 1)

\* The arguments of search_recipes.
SearchFilters ==
  {Merge(Merge(q, c), Merge(t, v)) :
     q \in {EmptyDict, [query |-> ""], [query |-> "PI"], [query |-> "ak"]},
     c \in {EmptyDict, [categories |-> <<>>], [categories |-> <<"Dinner">>],
            [categories |-> <<"Dinner", "dinner">>]},
     t \in {EmptyDict, [tags |-> <<"Quick">>], [tags |-> <<"Quick", "Easy">>]},
     v \in {EmptyDict, [favorite |-> TRUE], [favorite |-> FALSE]}}

\* Texts handed to import_recipe_from_json that are no export of this store.
ForeignTexts ==
  {[kind |-> "invalid"],
   [kind |-> "array", value |-> <<Minimal>>],
   [kind |-> "object", value |-> NoName],
   [kind |-> "object", value |-> Blank]}

(***************************************************************************)
(* State machine. calls counts the calls made, now is the clock that       *)
(* CURRENT_TIMESTAMP reads.                                                *)
(***************************************************************************)
Init ==
  /\ db = create_tables(EmptyStore)
  /\ now = 0
  /\ calls = 0

CanCall == calls < MaxCalls

Called == calls' = calls + 1 /\ UNCHANGED now

AddRecipe(data) ==
  /\ CanCall
  /\ NextId(db.recipes) <= MaxRecipes
  /\ db' = add_recipe(db, data, now).db
  /\ Called

UpdateRecipe(recipe_id, data) ==
  /\ CanCall
  /\ db' = update_recipe(db, recipe_id, data).db
  /\ Called

DeleteRecipe(recipe_id) ==
  /\ CanCall
  /\ db' = delete_recipe(db, recipe_id).db
  /\ Called

ImportRecipe(json_data) ==
  /\ CanCall
  /\ NextId(db.recipes) <= MaxRecipes
  /\ db' = import_recipe_from_json(db, json_data, now).db
  /\ Called

CreateShoppingList(name) ==
  /\ CanCall
  /\ NextId(db.shopping_lists) <= MaxLists
  /\ db' = create_shopping_list(db, name, "", now).db
  /\ Called

AddShoppingListItem(shopping_list_id, ingredient_id, quantity, unit) ==
  /\ CanCall
  /\ NextId(db.shopping_list_items) <= MaxItems
  /\ db' = add_shopping_list_item(db, shopping_list_id, ingredient_id, quantity, unit, "").db
  /\ Called

UpdateShoppingListItem(item_id, f) ==
  /\ CanCall
  /\ db' = update_shopping_list_item(db, item_id, f).db
  /\ Called

DeleteShoppingList(shopping_list_id) ==
  /\ CanCall
  /\ db' = delete_shopping_list(db, shopping_list_id).db
  /\ Called

GenerateShoppingList(recipe_ids, name) ==
  /\ CanCall
  /\ NextId(db.shopping_lists) <= MaxLists
  /\ NextId(db.shopping_list_items) + Cardinality(GroupedRows(db, recipe_ids)) <= MaxItems + 1
  /\ \E rows \in ResultOrders(db, recipe_ids) :
        db' = generate_shopping_list_from_recipes(db, recipe_ids, name, now, rows).db
  /\ Called

ListIds == 1..(MaxLists + 1)

ItemIds == 1..(MaxItems + 1)

RecipeIdLists == {<<>>} \cup {<<a>> : a \in RecipeIds} \cup {<<a, b>> : a, b \in 1..MaxRecipes}

ItemUpdates ==
  {EmptyDict, [checked |-> TRUE], [checked |-> FALSE], [quantity |-> 0],
   [notes |-> "ripe"], [checked |-> TRUE, quantity |-> 5, notes |-> "ripe"]}

RecipeCalls(inputs) ==
  \/ \E data \in inputs : AddRecipe(data)
  \/ \E recipe_id \in RecipeIds, data \in inputs : UpdateRecipe(recipe_id, data)
  \/ \E recipe_id \in RecipeIds : DeleteRecipe(recipe_id)

ImportCalls ==
  \E json_data \in ForeignTexts \cup UNION {export_recipe_to_json(db, r) : r \in RecipeIds} :
     ImportRecipe(json_data)

ShoppingCalls ==
  \/ \E name \in {"Weekly"} : CreateShoppingList(name)
  \/ \E shopping_list_id \in DOMAIN db.shopping_lists,
        ingredient_id \in {NULL} \cup DOMAIN db.ingredients :
        AddShoppingListItem(shopping_list_id, ingredient_id, 2, "kg")
  \/ \E item_id \in ItemIds, f \in ItemUpdates : UpdateShoppingListItem(item_id, f)
  \/ \E shopping_list_id \in ListIds : DeleteShoppingList(shopping_list_id)
  \/ \E recipe_ids \in RecipeIdLists, name \in {"", "Party"} :
        GenerateShoppingList(recipe_ids, name)

\* Every call of the repository.
Next == RecipeCalls(RecipeInputs) \/ ImportCalls \/ ShoppingCalls

Spec == Init /\ [][Next]_vars

\* The recipe repository alone: no shopping-list call is made.
NextRecipes == RecipeCalls(RecipeInputs) \/ ImportCalls

SpecRecipes == Init /\ [][NextRecipes]_vars

\* Recipe calls that differ in their categories, tags and ingredients keys.
LinkInputs ==
  {Merge(Minimal, a) : a \in AssociationInputs}
  \cup {Merge(NoName, [categories |-> <<>>]),
        Merge(Full, [categories |-> <<"Dinner", "dinner">>, tags |-> <<"Quick">>,
                     ingredients |-> <<Flour200g, Sugar50g>>])}

NextLinks == RecipeCalls(LinkInputs)

SpecLinks == Init /\ [][NextLinks]_vars

\* Recipe calls that differ in what search_recipes reads: the text fields, the
\* favorite flag, the categories and the tags.
SearchedInputs ==
  {Merge(s, a) :
     s \in {Full, Minimal},
     a \in {EmptyDict,
            [categories |-> <<"Dinner">>],
            [tags |-> <<"Quick">>],
            [categories |-> <<"Dinner">>, tags |-> <<"Easy">>],
            [categories |-> <<"Dinner", "dinner">>, tags |-> <<"Quick", "Easy">>]}}

NextSearch == RecipeCalls(SearchedInputs)

SpecSearch == Init /\ [][NextSearch]_vars

\* The shopping lists, over recipes that differ in their ingredients.
ListInputs ==
  {Merge(Minimal, [ingredients |-> <<Flour300g>>]),
   Merge(Minimal, [ingredients |-> <<Flour1cup>>]),
   Merge(Full, [categories |-> <<"Dinner", "dinner">>,
                ingredients |-> <<Flour200g, Sugar50g>>])}

NextLists == RecipeCalls(ListInputs) \/ ShoppingCalls

SpecLists == Init /\ [][NextLists]_vars

\* Recipe calls that name the same categories, tags and ingredients again, in
\* another letter case, with another unit, twice in one call, or not at all.
LabelInputs ==
  {Minimal,
   Merge(Minimal, [categories |-> <<>>, tags |-> <<>>, ingredients |-> <<>>]),
   Merge(Minimal, [categories |-> <<"Dinner">>]),
   Merge(Minimal, [ingredients |-> <<Flour1cup>>]),
   Merge(Minimal, [categories |-> <<"Dinner", "dinner">>, tags |-> <<"Quick", "Easy">>,
                   ingredients |-> <<Flour200g, Sugar50g>>]),
   Merge(Full, [categories |-> <<"Dinner", "Dinner">>, tags |-> <<>>,
                ingredients |-> <<Flour200g, Flour300g>>])}

NextLabels == RecipeCalls(LabelInputs)

SpecLabels == Init /\ [][NextLabels]_vars

\* The clock advances between calls. The timestamps are data no call branches
\* on, so the other specifications keep the clock still.
Tick ==
  /\ now < MaxClock
  /\ now' = now + 1
  /\ UNCHANGED <<db, calls>>

DateInputs ==
  {Full, Minimal, Merge(Minimal, [tags |-> <<"Quick">>, ingredients |-> <<Flour300g>>])}

NextDates == RecipeCalls(DateInputs) \/ ShoppingCalls \/ Tick

SpecDates == Init /\ [][NextDates]_vars

(***************************************************************************)
(* Properties. A property of a call is stated over the operator the        *)
(* action applies: for every reachable store and every argument, what the  *)
(* call returns and the store it leaves.                                   *)
(***************************************************************************)
CategoryLinks(d, recipe_id) == {l \in d.recipe_categories : l[1] = recipe_id}

TagLinks(d, recipe_id) == {l \in d.recipe_tags : l[1] = recipe_id}

IngredientLinks(d, recipe_id) == {l \in d.recipe_ingredients : l.recipe_id = recipe_id}

SuppliedIngredients(data) ==
  {[name |-> i.name, quantity |-> Get(i, "quantity", 0), unit |-> Get(i, "unit", ""),
    notes |-> Get(i, "notes", "")] : i \in Range(Get(data, "ingredients", <<>>))}

ReturnedIngredients(recipe) ==
  {[name |-> i.name, quantity |-> i.quantity, unit |-> i.unit, notes |-> i.notes] :
     i \in recipe.ingredients}

ScalarsAsSupplied(recipe, data) ==
  /\ recipe.name = data.name
  /\ recipe.description = Get(data, "description", "")
  /\ recipe.instructions = Get(data, "instructions", "")
  /\ recipe.prep_time = Get(data, "prep_time", 0)
  /\ recipe.cook_time = Get(data, "cook_time", 0)
  /\ recipe.servings = Get(data, "servings", 1)
  /\ recipe.difficulty = Get(data, "difficulty", "Medium")
  /\ recipe.source = Get(data, "source", "")
  /\ recipe.notes = Get(data, "notes", "")
  /\ recipe.favorite = Get(data, "favorite", FALSE)

\* C1: in every reachable store, add_recipe(data) followed by get_recipe on the id
\* it returned yields the supplied scalar fields and exactly the supplied sets of
\* categories, tags and ingredients (name, quantity, unit, notes).
C1_AddThenGet ==
  \A data \in RecipeInputs :
     LET r == add_recipe(db, data, now)
         recipe == get_recipe(r.db, r.ret)
     IN ~r.raised =>
          /\ recipe.found
          /\ ScalarsAsSupplied(recipe, data)
          /\ recipe.categories = Range(Get(data, "categories", <<>>))
          /\ recipe.tags = Range(Get(data, "tags", <<>>))
          /\ ReturnedIngredients(recipe) = SuppliedIngredients(data)

\* C2: after delete_recipe(id) returned true, get_recipe(id) is None and no
\* recipe_ingredients, recipe_categories or recipe_tags row has recipe_id = id.
C2_DeleteRemovesLinks ==
  \A recipe_id \in RecipeIds :
     LET r == delete_recipe(db, recipe_id)
     IN r.ret =>
          /\ ~get_recipe(r.db, recipe_id).found
          /\ IngredientLinks(r.db, recipe_id) = {}
          /\ CategoryLinks(r.db, recipe_id) = {}
          /\ TagLinks(r.db, recipe_id) = {}

ItemsOfList(d, shopping_list_id) ==
  {i \in DOMAIN d.shopping_list_items :
     d.shopping_list_items[i].shopping_list_id = shopping_list_id}

\* C3: after delete_shopping_list(id) returned true, no shopping_list_items row
\* has shopping_list_id = id.
C3_DeleteListRemovesItems ==
  \A shopping_list_id \in ListIds :
     LET r == delete_shopping_list(db, shopping_list_id)
     IN r.ret => ItemsOfList(r.db, shopping_list_id) = {}

\* C4: update_recipe on an existing recipe with categories = [] leaves it without
\* category links, and with the key absent leaves its category links as they
\* were; the same holds for tags and for ingredients. (A call that raises, for
\* want of a name, is no update: it returns nothing.)
C4_UpdateGroups ==
  \A recipe_id \in DOMAIN db.recipes, data \in LinkInputs :
     LET r == update_recipe(db, recipe_id, data)
     IN /\ (r.ret /\ Has(data, "categories") /\ data.categories = <<>>)
             => CategoryLinks(r.db, recipe_id) = {}
        /\ ~Has(data, "categories")
             => CategoryLinks(r.db, recipe_id) = CategoryLinks(db, recipe_id)
        /\ (r.ret /\ Has(data, "tags") /\ data.tags = <<>>)
             => TagLinks(r.db, recipe_id) = {}
        /\ ~Has(data, "tags")
             => TagLinks(r.db, recipe_id) = TagLinks(db, recipe_id)
        /\ (r.ret /\ Has(data, "ingredients") /\ data.ingredients = <<>>)
             => IngredientLinks(r.db, recipe_id) = {}
        /\ ~Has(data, "ingredients")
             => IngredientLinks(r.db, recipe_id) = IngredientLinks(db, recipe_id)

\* A recipe with links of all three kinds, whose update with categories = [] and
\* no tags or ingredients key returns true, clears the categories and keeps the rest.
C4_Witness ==
  \E recipe_id \in DOMAIN db.recipes :
     LET data == Merge(Minimal, [categories |-> <<>>])
         r == update_recipe(db, recipe_id, data)
     IN /\ CategoryLinks(db, recipe_id) # {}
        /\ TagLinks(db, recipe_id) # {}
        /\ IngredientLinks(db, recipe_id) # {}
        /\ r.ret
        /\ CategoryLinks(r.db, recipe_id) = {}
        /\ TagLinks(r.db, recipe_id) = TagLinks(db, recipe_id)
        /\ IngredientLinks(r.db, recipe_id) = IngredientLinks(db, recipe_id)

PairTotal(d, recipe_ids, ingredient_id, unit) ==
  SumQuantity({l \in d.recipe_ingredients :
                 /\ l.recipe_id \in Range(recipe_ids)
                 /\ l.ingredient_id = ingredient_id
                 /\ l.unit = unit})

\* C5: the list generate_shopping_list_from_recipes(recipe_ids) creates holds
\* exactly one item per (ingredient, unit) pair of the ingredient links of the
\* given recipes, its quantity the sum of the link quantities of the pair.
C5_GenerateOneItemPerPair ==
  \A recipe_ids \in RecipeIdLists :
     \A rows \in ResultOrders(db, recipe_ids) :
        LET r == generate_shopping_list_from_recipes(db, recipe_ids, "", now, rows)
            items == ItemsOfList(r.db, r.ret)
            pairs == {<<l.ingredient_id, l.unit>> :
                        l \in {x \in db.recipe_ingredients : x.recipe_id \in Range(recipe_ids)}}
        IN /\ Cardinality(items) = Cardinality(pairs)
           /\ \A p \in pairs :
                 \E i \in items :
                    /\ r.db.shopping_list_items[i].ingredient_id = p[1]
                    /\ r.db.shopping_list_items[i].unit = p[2]
                    /\ r.db.shopping_list_items[i].quantity =
                         PairTotal(db, recipe_ids, p[1], p[2])

EquivalentRecipes(a, b) ==
  /\ a.name = b.name
  /\ a.instructions = b.instructions
  /\ ReturnedIngredients(a) = ReturnedIngredients(b)
  /\ a.categories = b.categories

\* C6: every JSON text export_recipe_to_json gives for an existing recipe, imported
\* into a freshly initialised store, creates a recipe with the same name,
\* instructions, ingredient set and category set.
C6_ExportImportRoundTrip ==
  \A recipe_id \in DOMAIN db.recipes :
     \A json_data \in export_recipe_to_json(db, recipe_id) :
        LET r == import_recipe_from_json(create_tables(EmptyStore), json_data, now)
            imported == get_recipe(r.db, r.ret)
        IN /\ ~r.raised
           /\ imported.found
           /\ EquivalentRecipes(imported, get_recipe(db, recipe_id))

\* A recipe with two ingredients and two categories, stored under id 2, comes back
\* equivalent under id 1 of the fresh store.
C6_Witness ==
  /\ 2 \in DOMAIN db.recipes
  /\ Cardinality(get_recipe(db, 2).ingredients) = 2
  /\ Cardinality(get_recipe(db, 2).categories) = 2
  /\ \E json_data \in export_recipe_to_json(db, 2) :
        LET r == import_recipe_from_json(create_tables(EmptyStore), json_data, now)
        IN /\ r.ret = 1
           /\ EquivalentRecipes(get_recipe(r.db, r.ret), get_recipe(db, 2))

\* C7: importing a record whose id is that of an existing recipe updates that
\* recipe in place (same set of recipes, the id kept); a record with no id, or
\* with an id no recipe has, inserts a recipe under a new id.
C7_ImportUpsertsById ==
  \A data \in {Full, Minimal}, id \in {0} \cup RecipeIds :
     LET record == IF id = 0 THEN data ELSE Merge(data, [id |-> id])
         r == import_recipe_from_json(db, [kind |-> "object", value |-> record], now)
     IN IF id \in DOMAIN db.recipes
        THEN /\ r.ret = id
             /\ DOMAIN r.db.recipes = DOMAIN db.recipes
             /\ r.db.recipes[id].name = data.name
        ELSE /\ r.ret \notin DOMAIN db.recipes
             /\ DOMAIN r.db.recipes = DOMAIN db.recipes \cup {r.ret}

MalformedTexts ==
  {[kind |-> "invalid"],
   [kind |-> "array", value |-> <<Minimal>>],
   [kind |-> "string", value |-> "Tart"],
   [kind |-> "object", value |-> NoName]}

\* C8: importing a malformed payload (no JSON, JSON that is no object, an object
\* without name) returns None instead of raising and leaves the store as it was.
C8_MalformedImportFailsGracefully ==
  \A json_data \in MalformedTexts :
     LET r == import_recipe_from_json(db, json_data, now)
     IN /\ ~r.raised
        /\ r.ret = 0
        /\ r.db = db

Without(f, k) == [x \in DOMAIN f \ {k} |-> f[x]]

\* C9: with favorite given, search_recipes returns exactly the rows of the same
\* search without it whose favorite equals the argument, whatever the other filters.
C9_FavoriteFilterExact ==
  \A f \in SearchFilters :
     Has(f, "favorite") =>
        search_recipes(db, f) =
          {row \in search_recipes(db, Without(f, "favorite")) : row.favorite = f.favorite}

\* A favorite and a non-favorite recipe: favorite=True returns the one,
\* favorite=False the other, no favorite argument both.
C9_Witness ==
  /\ {row.favorite : row \in search_recipes(db, EmptyDict)} = {TRUE, FALSE}
  /\ {row.favorite : row \in search_recipes(db, [favorite |-> TRUE])} = {TRUE}
  /\ {row.favorite : row \in search_recipes(db, [favorite |-> FALSE])} = {FALSE}

HasListed(names, listed) == names \cap Range(listed) # {}

\* C10: with a non-empty category list and a non-empty tag list, search_recipes
\* returns exactly the recipes (among those the query and favorite filters admit)
\* that have one of the listed categories and one of the listed tags.
C10_CategoryAndTag ==
  \A f \in SearchFilters :
     (Get(f, "categories", <<>>) # <<>> /\ Get(f, "tags", <<>>) # <<>>) =>
        {row.id : row \in search_recipes(db, f)} =
          {recipe_id \in {row.id : row \in
                            search_recipes(db, Without(Without(f, "categories"), "tags"))} :
             /\ HasListed(get_recipe(db, recipe_id).categories, f.categories)
             /\ HasListed(get_recipe(db, recipe_id).tags, f.tags)}

\* One recipe has a listed category and no listed tag, another has both: the
\* search returns the second alone.
C10_Witness ==
  LET f == [categories |-> <<"Dinner">>, tags |-> <<"Quick">>]
  IN /\ {1, 2} \subseteq DOMAIN db.recipes
     /\ HasListed(get_recipe(db, 1).categories, f.categories)
     /\ ~HasListed(get_recipe(db, 1).tags, f.tags)
     /\ HasListed(get_recipe(db, 2).categories, f.categories)
     /\ HasListed(get_recipe(db, 2).tags, f.tags)
     /\ {row.id : row \in search_recipes(db, f)} = {2}

\* C11: for every combination of filters the result of search_recipes holds each
\* recipe id in at most one row, however many rows of the join the recipe makes.
C11_SearchDeduplicates ==
  \A f \in SearchFilters :
     \A a, b \in search_recipes(db, f) : a.id = b.id => a = b

\* A recipe with two of the listed categories and two of the listed tags makes
\* four rows of the join and one row of the result.
C11_Witness ==
  LET f == [categories |-> <<"Dinner", "dinner">>, tags |-> <<"Quick", "Easy">>]
  IN \E recipe_id \in DOMAIN db.recipes :
        /\ Cardinality({j \in JoinRows(db, f) : j[1] = recipe_id}) = 4
        /\ Cardinality({row \in search_recipes(db, f) : row.id = recipe_id}) = 1

\* C12: update_shopping_list_item with none of checked, quantity, notes supplied
\* returns False and leaves the store, the item included, as it was.
C12_UpdateItemNoFields ==
  \A item_id \in ItemIds :
     LET r == update_shopping_list_item(db, item_id, EmptyDict)
     IN ~r.ret /\ r.db = db

\* An existing item, checked before, on which the call without fields returns False.
C12_Witness ==
  \E item_id \in DOMAIN db.shopping_list_items :
     LET r == update_shopping_list_item(db, item_id, EmptyDict)
     IN /\ db.shopping_list_items[item_id].checked = 1
        /\ ~r.ret
        /\ r.db.shopping_list_items[item_id] = db.shopping_list_items[item_id]

ItemField(f, k) == IF k = "checked" THEN (IF f[k] THEN 1 ELSE 0) ELSE f[k]

\* C13: update_shopping_list_item writes the supplied fields of the item (checked =
\* False and quantity = 0 included) and nothing else: the other fields of the item,
\* the other items and the other tables keep their values.
C13_UpdateItemWritesSupplied ==
  \A item_id \in ItemIds, f \in ItemUpdates :
     LET r == update_shopping_list_item(db, item_id, f)
     IN /\ DOMAIN r.db.shopping_list_items = DOMAIN db.shopping_list_items
        /\ \A i \in DOMAIN db.shopping_list_items :
              \A k \in DOMAIN db.shopping_list_items[i] :
                 r.db.shopping_list_items[i][k] =
                   IF i = item_id /\ Has(f, k)
                   THEN ItemField(f, k)
                   ELSE db.shopping_list_items[i][k]
        /\ [r.db EXCEPT !.shopping_list_items = db.shopping_list_items] = db

\* A checked item with a quantity, beside another item: checked = False unchecks it
\* and keeps the quantity, quantity = 0 zeroes the quantity and keeps it checked.
C13_Witness ==
  \E item_id \in DOMAIN db.shopping_list_items :
     LET item == db.shopping_list_items[item_id]
         u == update_shopping_list_item(db, item_id, [checked |-> FALSE]).db
         q == update_shopping_list_item(db, item_id, [quantity |-> 0]).db
     IN /\ item.checked = 1
        /\ item.quantity # 0
        /\ u.shopping_list_items[item_id].checked = 0
        /\ u.shopping_list_items[item_id].quantity = item.quantity
        /\ q.shopping_list_items[item_id].quantity = 0
        /\ q.shopping_list_items[item_id].checked = 1
        /\ DOMAIN db.shopping_list_items # {item_id}

\* C14: update_recipe with an id no recipe has returns False, raises nothing and
\* leaves the whole store as it was, whatever data names.
C14_UpdateAbsentRecipe ==
  \A recipe_id \in RecipeIds \ DOMAIN db.recipes, data \in LinkInputs :
     LET r == update_recipe(db, recipe_id, data)
     IN ~r.ret /\ ~r.raised /\ r.db = db

\* The id of a deleted recipe whose links are still stored, and data naming a
\* category and an ingredient the store does not hold: nothing is created.
C14_Witness ==
  \E recipe_id \in RecipeIds \ DOMAIN db.recipes :
     LET data == Merge(Full, [categories |-> <<"Dinner", "dinner">>, tags |-> <<"Quick">>,
                              ingredients |-> <<Flour200g, Sugar50g>>])
         r == update_recipe(db, recipe_id, data)
     IN /\ data \in LinkInputs
        /\ DOMAIN db.recipes # {}
        /\ TagLinks(db, recipe_id) # {}
        /\ ~\E i \in DOMAIN db.categories : db.categories[i] = "dinner"
        /\ ~\E i \in DOMAIN db.ingredients : db.ingredients[i].name = "sugar"
        /\ ~r.ret
        /\ r.db = db

\* C15: delete_recipe returns True exactly when the recipe existed; when it returns
\* False the store is unchanged; a second delete of the same id returns False.
C15_DeleteRecipeResult ==
  \A recipe_id \in RecipeIds :
     LET r == delete_recipe(db, recipe_id)
     IN /\ r.ret = (recipe_id \in DOMAIN db.recipes)
        /\ ~r.ret => r.db = db
        /\ r.ret => ~delete_recipe(r.db, recipe_id).ret

\* With recipe 1 stored and no recipe 2: deleting 1 returns True and then False,
\* deleting 2 returns False.
C15_Witness ==
  /\ DOMAIN db.recipes = {1}
  /\ delete_recipe(db, 1).ret
  /\ ~delete_recipe(delete_recipe(db, 1).db, 1).ret
  /\ ~delete_recipe(db, 2).ret
  /\ delete_recipe(db, 2).db = db

\* C16: delete_shopping_list returns True exactly when the list existed; after a
\* True result get_shopping_list(id) is None and get_shopping_lists() has no row
\* with that id.
C16_DeleteListResult ==
  \A shopping_list_id \in ListIds :
     LET r == delete_shopping_list(db, shopping_list_id)
     IN /\ r.ret = (shopping_list_id \in DOMAIN db.shopping_lists)
        /\ r.ret =>
             /\ ~get_shopping_list(r.db, shopping_list_id).found
             /\ \A l \in get_shopping_lists(r.db) : l.id # shopping_list_id

\* Two lists stored and no third: deleting list 1 returns True and leaves list 2
\* alone in get_shopping_lists, deleting list 3 returns False.
C16_Witness ==
  /\ DOMAIN db.shopping_lists = {1, 2}
  /\ delete_shopping_list(db, 1).ret
  /\ {l.id : l \in get_shopping_lists(delete_shopping_list(db, 1).db)} = {2}
  /\ ~get_shopping_list(delete_shopping_list(db, 1).db, 1).found
  /\ ~delete_shopping_list(db, 3).ret

\* C17: generate_shopping_list_from_recipes([]) creates a new shopping list,
\* returns its id, and get_shopping_list on that id shows no items.
C17_GenerateEmptyList ==
  LET r == generate_shopping_list_from_recipes(db, <<>>, "", now, <<>>)
      created == get_shopping_list(r.db, r.ret)
  IN /\ r.ret \notin DOMAIN db.shopping_lists
     /\ created.found
     /\ created.items = {}

\* C18: _create_tables run again on a reachable store changes nothing, and each
\* default category and each default tag is stored exactly once.
C18_SchemaIdempotent ==
  /\ create_tables(db) = db
  /\ \A n \in Range(default_categories) :
        Cardinality({i \in DOMAIN db.categories : db.categories[i] = n}) = 1
  /\ \A n \in Range(default_tags) :
        Cardinality({i \in DOMAIN db.tags : db.tags[i] = n}) = 1

\* A store with a recipe, a category of the user's, links, an ingredient, a
\* shopping list and an item, on which _create_tables changes nothing.
C18_Witness ==
  /\ db.recipes # EmptyTable
  /\ \E i \in DOMAIN db.categories : db.categories[i] \notin Range(default_categories)
  /\ db.recipe_categories # {}
  /\ db.recipe_ingredients # {}
  /\ db.shopping_lists # EmptyTable
  /\ db.shopping_list_items # EmptyTable
  /\ create_tables(db) = db

\* C19: an add_recipe call that raises leaves in the store nothing it wrote.
C19_AddRecipeAtomic ==
  \A data \in RecipeInputs :
     LET r == add_recipe(db, data, now)
     IN r.raised => r.db = db

\* str.strip() for the whitespace the model's strings hold.
RECURSIVE LStrip(_)
LStrip(cs) == IF cs # <<>> /\ Head(cs) = " " THEN LStrip(Tail(cs)) ELSE cs

RECURSIVE RStrip(_)
RStrip(cs) ==
  IF cs # <<>> /\ cs[Len(cs)] = " " THEN RStrip(SubSeq(cs, 1, Len(cs) - 1)) ELSE cs

Strip(cs) == RStrip(LStrip(cs))

\* C20: every stored recipe has a name that is not empty after trimming.
C20_NamesNonEmpty ==
  \A recipe_id \in DOMAIN db.recipes :
     Strip(Chars(db.recipes[recipe_id].name)) # <<>>

NamesUnique(names) == \A i, j \in DOMAIN names : names[i] = names[j] => i = j

IngredientNames(table) == [i \in DOMAIN table |-> table[i].name]

\* The rows a call added to a table of names carry names the table did not hold.
OnlyNewNames(before, after) ==
  /\ DOMAIN before \subseteq DOMAIN after
  /\ \A i \in DOMAIN after \ DOMAIN before : after[i] \notin Range(before)

\* The stores add_recipe and update_recipe can leave, with the data of the call.
RecipeWrites ==
  {[data |-> data, id |-> NextId(db.recipes), r |-> add_recipe(db, data, now)] :
     data \in LinkInputs}
  \cup {[data |-> data, id |-> recipe_id, r |-> update_recipe(db, recipe_id, data)] :
          data \in LinkInputs, recipe_id \in DOMAIN db.recipes}

\* C21: no two categories, no two tags and no two ingredients share a name;
\* add_recipe and update_recipe insert a category, tag or ingredient row only for
\* a name not yet stored and link the stored row otherwise; names that differ in
\* letter case alone are linked as distinct labels.
C21_LabelNamesUnique ==
  /\ NamesUnique(db.categories)
  /\ NamesUnique(db.tags)
  /\ NamesUnique(IngredientNames(db.ingredients))
  /\ \A w \in RecipeWrites :
        /\ OnlyNewNames(db.categories, w.r.db.categories)
        /\ OnlyNewNames(db.tags, w.r.db.tags)
        /\ OnlyNewNames(IngredientNames(db.ingredients), IngredientNames(w.r.db.ingredients))
        /\ NamesUnique(w.r.db.categories)
        /\ NamesUnique(w.r.db.tags)
        /\ NamesUnique(IngredientNames(w.r.db.ingredients))
        /\ (~w.r.raised /\ Has(w.data, "categories") /\ w.data.categories # <<>>) =>
             /\ Range(w.data.categories) \subseteq RecipeCategories(w.r.db, w.id)
             /\ \A n \in Range(w.data.categories) :
                   <<w.id, LabelId(w.r.db.categories, n)>> \in w.r.db.recipe_categories

\* The store holds "Dinner" and "dinner" under two ids; an add_recipe naming both
\* inserts no category row and links the new recipe to the two stored rows.
C21_Witness ==
  LET data == Merge(Minimal, [categories |-> <<"Dinner", "dinner">>, tags |-> <<"Quick", "Easy">>,
                              ingredients |-> <<Flour200g, Sugar50g>>])
      r == add_recipe(db, data, now)
  IN /\ data \in LinkInputs
     /\ {"Dinner", "dinner"} \subseteq Range(db.categories)
     /\ LabelId(db.categories, "Dinner") # LabelId(db.categories, "dinner")
     /\ "flour" \in Range(IngredientNames(db.ingredients))
     /\ ~r.raised
     /\ r.db.categories = db.categories
     /\ r.db.ingredients = db.ingredients
     /\ CategoryLinks(r.db, r.ret) =
          {<<r.ret, LabelId(db.categories, "Dinner")>>, <<r.ret, LabelId(db.categories, "dinner")>>}

\* C22: no step changes the date_added of a recipe it keeps: update_recipe on the
\* recipe, calls on other recipes and calls on shopping lists leave the row of
\* every recipe under its id with the date_added it was created with.
C22_DateAddedImmutable ==
  [][\A recipe_id \in DOMAIN db.recipes \cap DOMAIN db'.recipes :
        db'.recipes[recipe_id].date_added = db.recipes[recipe_id].date_added]_vars

\* A recipe created before the clock advanced, whose update now rewrites its
\* scalar fields and keeps its date_added.
C22_Witness ==
  \E recipe_id \in DOMAIN db.recipes :
     LET r == update_recipe(db, recipe_id, Full)
     IN /\ db.recipes[recipe_id].date_added < now
        /\ db.recipes[recipe_id].name # Full.name
        /\ r.ret
        /\ r.db.recipes[recipe_id].name = Full.name
        /\ r.db.recipes[recipe_id].date_added = db.recipes[recipe_id].date_added

\* C23: the list create_shopping_list returns is empty: get_shopping_list on the
\* returned id has no items and no shopping_list_items row carries that id.
C23_ListCreatedEmpty ==
  LET r == create_shopping_list(db, "Weekly", "", now)
  IN /\ get_shopping_list(r.db, r.ret).found
     /\ get_shopping_list(r.db, r.ret).items = {}
     /\ ItemsOfList(r.db, r.ret) = {}

KeepsRows(before, after) ==
  \A i \in DOMAIN before : i \in DOMAIN after /\ after[i] = before[i]

\* C24: delete_recipe and update_recipe delete and modify no row of ingredients,
\* categories or tags, and neither does add_recipe; an ingredient named again
\* keeps its category and unit, the quantity, unit and notes supplied going onto
\* the link of the recipe.
C24_IngredientsOutliveRecipes ==
  /\ \A recipe_id \in RecipeIds :
        LET r == delete_recipe(db, recipe_id)
        IN /\ r.db.ingredients = db.ingredients
           /\ r.db.categories = db.categories
           /\ r.db.tags = db.tags
  /\ \A w \in RecipeWrites :
        /\ KeepsRows(db.ingredients, w.r.db.ingredients)
        /\ KeepsRows(db.categories, w.r.db.categories)
        /\ KeepsRows(db.tags, w.r.db.tags)
        /\ (~w.r.raised /\ Has(w.data, "ingredients")) =>
             \A ing \in Range(w.data.ingredients) :
                LinkRow(w.id, IngredientId(w.r.db.ingredients, ing.name), ing)
                  \in w.r.db.recipe_ingredients

\* flour is stored with category baking and unit g; a recipe added with one cup
\* of flour leaves that row alone and gets a link of 1 cup.
C24_Witness ==
  LET r == add_recipe(db, Merge(Minimal, [ingredients |-> <<Flour1cup>>]), now)
  IN \E i \in DOMAIN db.ingredients :
        /\ db.ingredients[i] = [name |-> "flour", category |-> "baking", unit |-> "g"]
        /\ ~r.raised
        /\ r.db.ingredients = db.ingredients
        /\ IngredientLinks(r.db, r.ret) =
             {[recipe_id |-> r.ret, ingredient_id |-> i, quantity |-> 1, unit |-> "cup",
               notes |-> ""]}

\* C25: an update_recipe that returns True leaves every scalar field of the recipe
\* at the value supplied, or at its default when the key is absent from the data.
C25_UpdateReplacesScalars ==
  \A recipe_id \in DOMAIN db.recipes, data \in LinkInputs :
     LET r == update_recipe(db, recipe_id, data)
     IN r.ret => ScalarsAsSupplied(get_recipe(r.db, recipe_id), data)

\* A recipe stored with every scalar field set and with categories, updated with
\* a name alone: the scalars fall back to the defaults, the categories stay.
C25_Witness ==
  \E recipe_id \in DOMAIN db.recipes :
     LET before == get_recipe(db, recipe_id)
         r == update_recipe(db, recipe_id, Minimal)
         after == get_recipe(r.db, recipe_id)
     IN /\ ScalarsAsSupplied(before, Full)
        /\ before.categories # {}
        /\ r.ret
        /\ after.name = "Tart"
        /\ after.description = "" /\ after.instructions = "" /\ after.source = ""
        /\ after.notes = "" /\ after.prep_time = 0 /\ after.cook_time = 0
        /\ after.servings = 1 /\ after.difficulty = "Medium" /\ ~after.favorite
        /\ after.categories = before.categories

\* C26: update_shopping_list_item with a field supplied and an id no item has
\* returns False and changes nothing.
C26_UpdateAbsentItem ==
  \A item_id \in ItemIds \ DOMAIN db.shopping_list_items, f \in ItemUpdates \ {EmptyDict} :
     LET r == update_shopping_list_item(db, item_id, f)
     IN ~r.ret /\ r.db = db

\* C27: every stored item of an existing shopping list is among the items
\* get_shopping_list returns for the list, an item without ingredient included.
C27_ItemsListed ==
  \A i \in DOMAIN db.shopping_list_items :
     LET list == get_shopping_list(db, db.shopping_list_items[i].shopping_list_id)
     IN list.found => \E row \in list.items : row.id = i

\* C28: the id add_recipe returns is not the id of a recipe stored or deleted
\* before (every id in recipes was returned by an add_recipe, the one statement
\* that inserts there), and likewise for create_shopping_list.
C28_IdsNeverReused ==
  /\ \A data \in {Full, Minimal} :
        /\ add_recipe(db, data, now).ret \notin DOMAIN db.recipes
        /\ \A recipe_id \in DOMAIN db.recipes :
              add_recipe(delete_recipe(db, recipe_id).db, data, now).ret # recipe_id
  /\ create_shopping_list(db, "Weekly", "", now).ret \notin DOMAIN db.shopping_lists
  /\ \A shopping_list_id \in DOMAIN db.shopping_lists :
        create_shopping_list(delete_shopping_list(db, shopping_list_id).db,
                             "Weekly", "", now).ret # shopping_list_id

\* C29: add_recipe, update_recipe(a, ...) and delete_recipe(a) leave get_recipe(b)
\* as it was for every other stored recipe b, whatever a and b share.
C29_OtherRecipesUnchanged ==
  \A b \in DOMAIN db.recipes :
     /\ \A w \in RecipeWrites :
           w.id # b => get_recipe(w.r.db, b) = get_recipe(db, b)
     /\ \A a \in DOMAIN db.recipes \ {b} :
           get_recipe(delete_recipe(db, a).db, b) = get_recipe(db, b)

\* Two recipes with the same categories, tags and ingredients: clearing the
\* three groups of the one, and deleting it, leave the other with all of them.
C29_Witness ==
  \E a, b \in DOMAIN db.recipes :
     LET r == update_recipe(db, a, Merge(Minimal, [categories |-> <<>>, tags |-> <<>>,
                                                   ingredients |-> <<>>]))
     IN /\ a # b
        /\ get_recipe(db, a).categories = get_recipe(db, b).categories
        /\ get_recipe(db, a).tags = get_recipe(db, b).tags
        /\ get_recipe(db, a).ingredients = get_recipe(db, b).ingredients
        /\ get_recipe(db, b).categories # {}
        /\ get_recipe(db, b).tags # {}
        /\ get_recipe(db, b).ingredients # {}
        /\ r.ret
        /\ get_recipe(r.db, a).ingredients = {}
        /\ get_recipe(r.db, b) = get_recipe(db, b)
        /\ get_recipe(delete_recipe(db, a).db, b) = get_recipe(db, b)

\* The items a call of generate_shopping_list_from_recipes inserted.
NewItems(before, after) ==
  {[ingredient_id |-> after.shopping_list_items[i].ingredient_id,
    quantity |-> after.shopping_list_items[i].quantity,
    unit |-> after.shopping_list_items[i].unit] :
     i \in DOMAIN after.shopping_list_items \ DOMAIN before.shopping_list_items}

\* C30: generate_shopping_list_from_recipes(recipe_ids) inserts the items it
\* inserts for the stored recipes among recipe_ids, each named once: a repeated
\* id and an id no recipe has add nothing.
C30_GenerateFromExisting ==
  \A recipe_ids \in RecipeIdLists :
     \A named \in Orders(Range(recipe_ids) \cap DOMAIN db.recipes) :
        \A rows \in ResultOrders(db, recipe_ids), expected \in ResultOrders(db, named) :
           NewItems(db, generate_shopping_list_from_recipes(db, recipe_ids, "", now, rows).db)
             = NewItems(db, generate_shopping_list_from_recipes(db, named, "", now, expected).db)

====
